---- MODULE Spec2Model ----
(***************************************************************************)
(* Model of web/src/services/api.ts: the API gateway class, its shared     *)
(* request routine (API.fetch) and its endpoint methods.                   *)
(*                                                                         *)
(* JavaScript values are tagged records; paths, header values and bodies   *)
(* are strings built by concatenation exactly as the source builds them.   *)
(***************************************************************************)
EXTENDS Integers, Sequences, FiniteSets, Bags, TLC

\* ------------------------------------------------------------------------
\* JavaScript values

JUndefined == [t |-> "undefined"]
JNull == [t |-> "null"]
JBool(b) == [t |-> "bool", v |-> b]
JNum(n) == [t |-> "num", v |-> n]
JStr(s) == [t |-> "str", v |-> s]
\* an object is the sequence of its own enumerable <<key, value>> pairs
JObj(fields) == [t |-> "obj", f |-> fields]
JArr(items) == [t |-> "arr", a |-> items]
Blob(type, data) == [t |-> "blob", type |-> type, data |-> data]
JError(name, message) == [t |-> "error", name |-> name, message |-> message]

\* ToBoolean: the test of `body ? ... : undefined`, `this.locale ? ...`
Truthy(v) ==
  CASE v.t = "undefined" -> FALSE
    [] v.t = "null" -> FALSE
    [] v.t = "bool" -> v.v
    [] v.t = "num" -> v.v # 0
    [] v.t = "str" -> v.v # ""
    [] OTHER -> TRUE

\* `body instanceof Blob`
IsBlob(v) == v.t = "blob"

\* ToString of a value spliced into a string (template literal, `+`)
RECURSIVE ToStr(_)
ToStr(v) ==
  CASE v.t = "undefined" -> "undefined"
    [] v.t = "null" -> "null"
    [] v.t = "bool" -> (IF v.v THEN "true" ELSE "false")
    [] v.t = "num" -> ToString(v.v)
    [] v.t = "str" -> v.v
    [] OTHER -> "[object Object]"

\* ------------------------------------------------------------------------
\* JSON.stringify and JSON.parse on the value domain above

Quote == "\""

RECURSIVE Stringify(_)
RECURSIVE StringifyFields(_, _)
RECURSIVE StringifyItems(_, _)

\* members whose value is undefined are skipped, the others comma-joined
StringifyFields(fields, first) ==
  IF fields = <<>> THEN ""
  ELSE IF Head(fields)[2].t = "undefined"
       THEN StringifyFields(Tail(fields), first)
       ELSE (IF first THEN "" ELSE ",")
            \o Quote \o Head(fields)[1] \o Quote \o ":"
            \o Stringify(Head(fields)[2])
            \o StringifyFields(Tail(fields), FALSE)

StringifyItems(items, first) ==
  IF items = <<>> THEN ""
  ELSE (IF first THEN "" ELSE ",")
       \o (IF Head(items).t = "undefined" THEN "null"
           ELSE Stringify(Head(items)))
       \o StringifyItems(Tail(items), FALSE)

Stringify(v) ==
  CASE v.t = "null" -> "null"
    [] v.t = "bool" -> (IF v.v THEN "true" ELSE "false")
    [] v.t = "num" -> ToString(v.v)
    [] v.t = "str" -> Quote \o v.v \o Quote
    [] v.t = "obj" -> "{" \o StringifyFields(v.f, TRUE) \o "}"
    [] v.t = "arr" -> "[" \o StringifyItems(v.a, TRUE) \o "]"
    [] v.t = "error" -> "{}"
    [] OTHER -> "{}"

Digits == <<"0", "1", "2", "3", "4", "5", "6", "7", "8", "9">>
IsDigit(c) == \E d \in 1..10 : Digits[d] = c
DigitVal(c) == (CHOOSE d \in 1..10 : Digits[d] = c) - 1

At(s, i) == IF i >= 1 /\ i <= Len(s) THEN SubSeq(s, i, i) ELSE ""
Lit(s, i, w) == i + Len(w) - 1 <= Len(s) /\ SubSeq(s, i, i + Len(w) - 1) = w

PFail == [ok |-> FALSE, val |-> JUndefined, pos |-> 0]
POk(v, p) == [ok |-> TRUE, val |-> v, pos |-> p]

RECURSIVE ScanNum(_, _, _)
ScanNum(s, i, acc) ==
  IF IsDigit(At(s, i)) THEN ScanNum(s, i + 1, acc * 10 + DigitVal(At(s, i)))
  ELSE POk(JNum(acc), i)

RECURSIVE ScanStr(_, _, _)
ScanStr(s, i, acc) ==
  IF i > Len(s) THEN PFail
  ELSE IF At(s, i) = Quote THEN POk(JStr(acc), i + 1)
  ELSE IF At(s, i) = "\\" THEN PFail
  ELSE ScanStr(s, i + 1, acc \o At(s, i))

RECURSIVE ParseValue(_, _)
RECURSIVE ParseMembers(_, _, _)
RECURSIVE ParseItems(_, _, _)

\* after "{" or ",": "key":value, then "," or "}"
ParseMembers(s, i, acc) ==
  IF At(s, i) # Quote THEN PFail
  ELSE LET k == ScanStr(s, i + 1, "") IN
       IF ~k.ok \/ At(s, k.pos) # ":" THEN PFail
       ELSE LET v == ParseValue(s, k.pos + 1) IN
            IF ~v.ok THEN PFail
            ELSE LET more == Append(acc, <<k.val.v, v.val>>) IN
                 IF At(s, v.pos) = "," THEN ParseMembers(s, v.pos + 1, more)
                 ELSE IF At(s, v.pos) = "}" THEN POk(JObj(more), v.pos + 1)
                 ELSE PFail

ParseItems(s, i, acc) ==
  LET v == ParseValue(s, i) IN
  IF ~v.ok THEN PFail
  ELSE LET more == Append(acc, v.val) IN
       IF At(s, v.pos) = "," THEN ParseItems(s, v.pos + 1, more)
       ELSE IF At(s, v.pos) = "]" THEN POk(JArr(more), v.pos + 1)
       ELSE PFail

ParseValue(s, i) ==
  IF Lit(s, i, "true") THEN POk(JBool(TRUE), i + 4)
  ELSE IF Lit(s, i, "false") THEN POk(JBool(FALSE), i + 5)
  ELSE IF Lit(s, i, "null") THEN POk(JNull, i + 4)
  ELSE IF IsDigit(At(s, i)) THEN ScanNum(s, i, 0)
  ELSE IF At(s, i) = Quote THEN ScanStr(s, i + 1, "")
  ELSE IF Lit(s, i, "{}") THEN POk(JObj(<<>>), i + 2)
  ELSE IF At(s, i) = "{" THEN ParseMembers(s, i + 1, <<>>)
  ELSE IF Lit(s, i, "[]") THEN POk(JArr(<<>>), i + 2)
  ELSE IF At(s, i) = "[" THEN ParseItems(s, i + 1, <<>>)
  ELSE PFail

\* JSON.parse(text): the value, or a SyntaxError when the text is not JSON
JSONParse(text) ==
  LET r == ParseValue(text, 1) IN
  IF r.ok /\ r.pos = Len(text) + 1 THEN [ok |-> TRUE, val |-> r.val]
  ELSE [ok |-> FALSE, val |-> JError("SyntaxError", "Unexpected token")]

\* ------------------------------------------------------------------------
\* Runtime constants and input domains

Origin == "https://voice.test"
API_PATH == Origin \o "/api/v1"
USER_KEY == "userdetails"

MaxInstances == 2
MaxInFlight == 2

\* User.State objects owned by the caller; an API holds a reference (index)
Users ==
  << [userId |-> "cid-1", account |-> JNull],
     [userId |-> "cid-2", account |-> JObj(<<<<"email", JStr("a@b.c")>>>>)] >>

InitLocales == {JUndefined, JStr(""), JStr("fr")}
LocaleArgs == {JStr("en"), JStr("")}
OptLocales == {JUndefined, JStr("fr")}
Counts == {JUndefined, JNum(3)}
Blobs == {Blob("audio/ogg", "clip-1"), Blob("", "clip-2")}
Sentences == {"a b"}
Ids == {"7"}
Emails == {"a@b.c"}
Accounts == {JObj(<<<<"username", JStr("al")>>, <<"visible", JBool(FALSE)>>>>)}
Goals == {JObj(<<<<"daysInterval", JNum(7)>>, <<"amount", JNum(5)>>>>)}
Cursors == {JUndefined, JArr(<<JNum(1), JNum(2)>>)}
Reports ==
  {JNull, JBool(FALSE), JNum(0), JStr(""), JStr("spam"),
   JObj(<<<<"kind", JStr("clip")>>, <<"reasons", JArr(<<JStr("x")>>)>>>>)}

Statuses == {200, 400, 401, 500}
StatusTexts == {"OK", "save_clip_error"}
BodyTexts == {"save_clip_error", "{\"a\":1}"}
Responses ==
  [kind : {"response"}, status : Statuses, statusText : StatusTexts,
   body : BodyTexts]
\* the transport's own rejection (network unreachable, DNS failure)
TransportFailure == [kind |-> "failure", error |-> JError("TypeError", "Failed to fetch")]

\* ------------------------------------------------------------------------
\* Objects with string keys (headers, options)

EmptyObj == [k \in {} |-> ""]
\* Object.assign(target, source): source's keys win
Assign(target, source) == source @@ target
Has(o, k) == k \in DOMAIN o

\* path.startsWith(prefix)
StartsWith(s, prefix) ==
  Len(s) >= Len(prefix) /\ SubSeq(s, 1, Len(prefix)) = prefix

\* encodeURIComponent on the characters of the sentence domain
RECURSIVE encodeURIComponent(_)
encodeURIComponent(s) ==
  IF s = "" THEN ""
  ELSE LET c == SubSeq(s, 1, 1) IN
       (CASE c = " " -> "%20"
          [] c = "?" -> "%3F"
          [] c = "/" -> "%2F"
          [] OTHER -> c)
       \o encodeURIComponent(SubSeq(s, 2, Len(s)))

\* ------------------------------------------------------------------------
\* API.fetch, up to the transport call

\* Object.assign({ isJSON: true }, options).isJSON
IsJSONOf(options) == Assign([isJSON |-> TRUE], options).isJSON

\* variant: the caller's headers are merged first, the JSON default over them
FinalHeadersDefaultsWin(user, path, options) ==
  LET base == IF IsJSONOf(options)
              THEN ("Content-Type" :> "application/json; charset=utf-8")
              ELSE EmptyObj
      merged == IF Has(options, "headers") THEN Assign(options.headers, base)
                ELSE base
  IN IF StartsWith(path, Origin) /\ ~Truthy(user.account)
     THEN Assign(merged, ("client_id" :> user.userId))
     ELSE merged

\* finalHeaders: the JSON default, then the caller's headers, then client_id
FinalHeaders(user, path, options) ==
  LET base == IF IsJSONOf(options)
              THEN ("Content-Type" :> "application/json; charset=utf-8")
              ELSE EmptyObj
      merged == IF Has(options, "headers") THEN Assign(base, options.headers)
                ELSE base
  IN IF StartsWith(path, Origin) /\ ~Truthy(user.account)
     THEN Assign(merged, ("client_id" :> user.userId))
     ELSE merged

\* variant: no instanceof Blob test, every truthy body is stringified
EncodeBodyStringifyAll(body) ==
  IF Truthy(body) THEN JStr(Stringify(body)) ELSE JUndefined

\* body ? (body instanceof Blob ? body : JSON.stringify(body)) : undefined
EncodeBody(body) ==
  IF Truthy(body)
  THEN IF IsBlob(body) THEN body ELSE JStr(Stringify(body))
  ELSE JUndefined

\* the transport requests one API.fetch call performs
fetch(api, path, options) ==
  << [ method |-> IF Has(options, "method") THEN options.method ELSE "GET",
       path |-> path,
       headers |-> FinalHeaders(Users[api.user], path, options),
       credentials |-> "same-origin",
       body |-> EncodeBody(IF Has(options, "body") THEN options.body
                           ELSE JUndefined) ] >>

\* ------------------------------------------------------------------------
\* API.fetch, after the transport has answered

Resolved(v) == [kind |-> "resolved", value |-> v]
Rejected(e) == [kind |-> "rejected", value |-> e]

\* response.json() / response.text()
Decode(isJSON, text) ==
  IF isJSON
  THEN LET r == JSONParse(text) IN
       IF r.ok THEN Resolved(r.val) ELSE Rejected(r.val)
  ELSE Resolved(JStr(text))

\* variant: the status >= 400 test comes before the 401 test
fetchResultErrorsFirst(isJSON, reply) ==
  IF reply.kind = "failure"
  THEN [outcome |-> Rejected(reply.error), removed |-> <<>>, reloads |-> 0,
        requests |-> 0]
  ELSE IF reply.status >= 400 /\ reply.statusText = "save_clip_error"
  THEN [outcome |-> Rejected(JError("Error", reply.statusText)),
        removed |-> <<>>, reloads |-> 0, requests |-> 0]
  ELSE IF reply.status = 401
  THEN [outcome |-> Resolved(JUndefined), removed |-> <<USER_KEY>>,
        reloads |-> 1, requests |-> 0]
  ELSE IF reply.status >= 400
  THEN [outcome |-> Rejected(JError("Error", reply.body)),
        removed |-> <<>>, reloads |-> 0, requests |-> 0]
  ELSE [outcome |-> Decode(isJSON, reply.body), removed |-> <<>>,
        reloads |-> 0, requests |-> 0]

\* variant: the save_clip_error token is looked for in the body text
fetchResultTokenInBody(isJSON, reply) ==
  IF reply.kind = "failure"
  THEN [outcome |-> Rejected(reply.error), removed |-> <<>>, reloads |-> 0,
        requests |-> 0]
  ELSE IF reply.status = 401
  THEN [outcome |-> Resolved(JUndefined), removed |-> <<USER_KEY>>,
        reloads |-> 1, requests |-> 0]
  ELSE IF reply.status >= 400
  THEN [outcome |-> IF reply.body = "save_clip_error"
                    THEN Rejected(JError("Error", reply.statusText))
                    ELSE Rejected(JError("Error", reply.body)),
        removed |-> <<>>, reloads |-> 0, requests |-> 0]
  ELSE [outcome |-> Decode(isJSON, reply.body), removed |-> <<>>,
        reloads |-> 0, requests |-> 0]

\* variant: a transport failure or a 5xx answer is retried once
fetchResultRetry(isJSON, reply) ==
  IF reply.kind = "failure"
  THEN [outcome |-> Rejected(reply.error), removed |-> <<>>, reloads |-> 0,
        requests |-> 1]
  ELSE IF reply.status = 401
  THEN [outcome |-> Resolved(JUndefined), removed |-> <<USER_KEY>>,
        reloads |-> 1, requests |-> 0]
  ELSE IF reply.status >= 400
  THEN [outcome |-> IF reply.statusText = "save_clip_error"
                    THEN Rejected(JError("Error", reply.statusText))
                    ELSE Rejected(JError("Error", reply.body)),
        removed |-> <<>>, reloads |-> 0,
        requests |-> IF reply.status >= 500 THEN 1 ELSE 0]
  ELSE [outcome |-> Decode(isJSON, reply.body), removed |-> <<>>,
        reloads |-> 0, requests |-> 0]

\* outcome of the call, keys removed from localStorage, location.reload()
\* calls, and further transport requests (none: there is no retry)
fetchResult(isJSON, reply) ==
  IF reply.kind = "failure"
  THEN [outcome |-> Rejected(reply.error), removed |-> <<>>, reloads |-> 0,
        requests |-> 0]
  ELSE IF reply.status = 401
  THEN [outcome |-> Resolved(JUndefined), removed |-> <<USER_KEY>>,
        reloads |-> 1, requests |-> 0]
  ELSE IF reply.status >= 400
  THEN [outcome |-> IF reply.statusText = "save_clip_error"
                    THEN Rejected(JError("Error", reply.statusText))
                    ELSE Rejected(JError("Error", reply.body)),
        removed |-> <<>>, reloads |-> 0, requests |-> 0]
  ELSE [outcome |-> Decode(isJSON, reply.body), removed |-> <<>>,
        reloads |-> 0, requests |-> 0]

\* promise.then(f), r being what f does with the value: returns or throws
Then(p, r) ==
  IF p.kind = "resolved"
  THEN IF r.ok THEN Resolved(r.val) ELSE Rejected(r.val)
  ELSE p

\* promise.catch(err => err)
CatchReturn(p) == IF p.kind = "rejected" THEN Resolved(p.value) ELSE p

RECURSIVE IndexPairs(_, _)
IndexPairs(items, i) ==
  IF i > Len(items) THEN <<>>
  ELSE <<JArr(<<JStr(ToString(i - 1)), items[i]>>)>> \o IndexPairs(items, i + 1)

\* Object.entries(v)
ObjectEntries(v) ==
  CASE v.t \in {"undefined", "null"} ->
         [ok |-> FALSE,
          val |-> JError("TypeError", "Cannot convert undefined or null to object")]
    [] v.t = "obj" ->
         [ok |-> TRUE,
          val |-> JArr([i \in 1..Len(v.f) |-> JArr(<<JStr(v.f[i][1]), v.f[i][2]>>)])]
    [] v.t = "arr" -> [ok |-> TRUE, val |-> JArr(IndexPairs(v.a, 1))]
    [] v.t = "str" ->
         [ok |-> TRUE,
          val |-> JArr([i \in 1..Len(v.v) |->
                         JArr(<<JStr(ToString(i - 1)), JStr(SubSeq(v.v, i, i))>>)])]
    [] OTHER -> [ok |-> TRUE, val |-> JArr(<<>>)]

\* body => JSON.parse(body)
ParseBody(v) == JSONParse(ToStr(v))

\* variant: saveAvatarClip without its .catch(err => err)
EndpointOutcomeNoCatch(endpoint, p) ==
  CASE endpoint = "saveAvatar" -> Then(p, ParseBody(p.value))
    [] endpoint = "fetchCrossLocaleMessages" -> Then(p, ObjectEntries(p.value))
    [] OTHER -> p

\* what the endpoint method does with the promise API.fetch returned
EndpointOutcome(endpoint, p) ==
  CASE endpoint = "saveAvatar" -> Then(p, ParseBody(p.value))
    [] endpoint = "saveAvatarClip" -> CatchReturn(p)
    [] endpoint = "fetchCrossLocaleMessages" -> Then(p, ObjectEntries(p.value))
    [] OTHER -> p

\* ------------------------------------------------------------------------
\* State

VARIABLES
  apis,       \* the API instances constructed so far: [locale, user]
  pending,    \* bag of calls awaiting the transport: [endpoint, isJSON, reqs]
  issued,     \* the call just made and the requests it handed to the transport
  settled,    \* the call just settled: reply, outcome and side effects
  storage,    \* keys present in localStorage
  reloading   \* location.reload() has been called

vars == <<apis, pending, issued, settled, storage, reloading>>

\* new API(locale, user)
NewAPI(locale, user) == [locale |-> locale, user |-> user]

\* one gateway, constructed by the caller for an anonymous user
Init ==
  /\ apis = <<NewAPI(JStr("fr"), 1)>>
  /\ pending = EmptyBag
  /\ issued = <<>>
  /\ settled = <<>>
  /\ storage = {USER_KEY}
  /\ reloading = FALSE

\* one gateway, for any locale state and either user
InitGateways ==
  /\ apis \in {<<NewAPI(l, u)>> : l \in InitLocales, u \in DOMAIN Users}
  /\ pending = EmptyBag
  /\ issued = <<>>
  /\ settled = <<>>
  /\ storage = {USER_KEY}
  /\ reloading = FALSE

InFlight == BagCardinality(pending)
Idle == issued = <<>> /\ settled = <<>>

\* ------------------------------------------------------------------------
\* Path helpers

\* variant: the locale is appended without the test for its presence
getLocalePathAlways(api) == API_PATH \o "/" \o ToStr(api.locale)

getLocalePath(api) ==
  IF Truthy(api.locale) THEN API_PATH \o "/" \o ToStr(api.locale) ELSE API_PATH

getClipPath(api) == getLocalePath(api) \o "/clips"

\* (locale ? '/' + locale : '')
LocaleSegment(locale) == IF Truthy(locale) THEN "/" \o ToStr(locale) ELSE ""

\* a parameter with a default value: the default replaces undefined only
Default(v, d) == IF v.t = "undefined" THEN d ELSE v

\* ------------------------------------------------------------------------
\* forLocale

\* variant: the receiver is re-scoped too
forLocaleInPlace(i, locale) ==
  /\ Idle
  /\ Len(apis) < MaxInstances
  /\ apis' = Append([apis EXCEPT ![i].locale = locale],
                    NewAPI(locale, apis[i].user))
  /\ UNCHANGED <<pending, issued, settled, storage, reloading>>

forLocale(i, locale) ==
  /\ Idle
  /\ Len(apis) < MaxInstances
  /\ apis' = Append(apis, NewAPI(locale, apis[i].user))
  /\ UNCHANGED <<pending, issued, settled, storage, reloading>>

\* ------------------------------------------------------------------------
\* Endpoint methods: each is one call of this.fetch(path, options)

Call(i, endpoint, args, path, options) ==
  LET requests == fetch(apis[i], path, options) IN
  /\ Idle
  /\ issued' = << [api |-> i, endpoint |-> endpoint, args |-> args,
                   path |-> path, options |-> options,
                   requests |-> requests] >>
  /\ pending' = pending (+) SetToBag({[endpoint |-> endpoint,
                                       isJSON |-> IsJSONOf(options),
                                       reqs |-> Len(requests)]})
  /\ UNCHANGED <<apis, settled, storage, reloading>>

fetchRandomSentences(i, count) ==
  Call(i, "fetchRandomSentences", <<count>>,
       getLocalePath(apis[i]) \o "/sentences?count=" \o ToStr(Default(count, JNum(1))),
       EmptyObj)

fetchRandomClips(i, count) ==
  Call(i, "fetchRandomClips", <<count>>,
       getClipPath(apis[i]) \o "?count=" \o ToStr(Default(count, JNum(1))),
       EmptyObj)

uploadClip(i, blob, sentenceId, sentence) ==
  Call(i, "uploadClip", <<blob, sentenceId, sentence>>, getClipPath(apis[i]),
       [method |-> "POST",
        headers |-> ("Content-Type" :> blob.type)
                    @@ ("sentence" :> encodeURIComponent(sentence))
                    @@ ("sentence_id" :> sentenceId),
        body |-> blob])

saveVote(i, id, isValid) ==
  Call(i, "saveVote", <<id, isValid>>, getClipPath(apis[i]) \o "/" \o id \o "/votes",
       [method |-> "POST", body |-> JObj(<<<<"isValid", JBool(isValid)>>>>)])

fetchValidatedHours(i) ==
  Call(i, "fetchValidatedHours", <<>>, getClipPath(apis[i]) \o "/validated_hours", EmptyObj)

fetchDailyClipsCount(i) ==
  Call(i, "fetchDailyClipsCount", <<>>, getClipPath(apis[i]) \o "/daily_count", EmptyObj)

fetchDailyVotesCount(i) ==
  Call(i, "fetchDailyVotesCount", <<>>, getClipPath(apis[i]) \o "/votes/daily_count", EmptyObj)

fetchLocaleMessages(i, locale) ==
  Call(i, "fetchLocaleMessages", <<locale>>, "/locales/" \o locale \o "/messages.ftl",
       [isJSON |-> FALSE])

fetchCrossLocaleMessages(i) ==
  Call(i, "fetchCrossLocaleMessages", <<>>, "/cross-locale-messages.json", EmptyObj)

fetchRequestedLanguages(i) ==
  Call(i, "fetchRequestedLanguages", <<>>, API_PATH \o "/requested_languages", EmptyObj)

requestLanguage(i, language) ==
  Call(i, "requestLanguage", <<language>>, API_PATH \o "/requested_languages",
       [method |-> "POST", body |-> JObj(<<<<"language", JStr(language)>>>>)])

fetchLanguageStats(i) ==
  Call(i, "fetchLanguageStats", <<>>, API_PATH \o "/language_stats", EmptyObj)

fetchDocument(i, name) ==
  Call(i, "fetchDocument", <<name>>, "/" \o name \o "/" \o ToStr(apis[i].locale) \o ".html",
       [isJSON |-> FALSE])

skipSentence(i, id) ==
  Call(i, "skipSentence", <<id>>, API_PATH \o "/skipped_sentences/" \o id,
       [method |-> "POST"])

fetchClipsStats(i, locale) ==
  Call(i, "fetchClipsStats", <<locale>>, API_PATH \o LocaleSegment(locale) \o "/clips/stats",
       EmptyObj)

fetchClipVoices(i, locale) ==
  Call(i, "fetchClipVoices", <<locale>>, API_PATH \o LocaleSegment(locale) \o "/clips/voices",
       EmptyObj)

fetchContributionActivity(i, from, locale) ==
  Call(i, "fetchContributionActivity", <<from, locale>>,
       API_PATH \o LocaleSegment(locale) \o "/contribution_activity?from=" \o from,
       EmptyObj)

fetchUserClients(i) ==
  Call(i, "fetchUserClients", <<>>, API_PATH \o "/user_clients", EmptyObj)

fetchAccount(i) ==
  Call(i, "fetchAccount", <<>>, API_PATH \o "/user_client", EmptyObj)

saveAccount(i, data) ==
  Call(i, "saveAccount", <<data>>, API_PATH \o "/user_client",
       [method |-> "PATCH", body |-> data])

subscribeToNewsletter(i, email) ==
  Call(i, "subscribeToNewsletter", <<email>>, API_PATH \o "/newsletter/" \o email,
       [method |-> "POST"])

saveAvatar(i, type, file) ==
  Call(i, "saveAvatar", <<type, file>>, API_PATH \o "/user_client/avatar/" \o type,
       Assign([method |-> "POST", isJSON |-> FALSE],
              IF Truthy(file) THEN [body |-> file] ELSE EmptyObj))

saveAvatarClip(i, blob) ==
  Call(i, "saveAvatarClip", <<blob>>, API_PATH \o "/user_client/avatar_clip",
       [method |-> "POST", headers |-> ("Content-Type" :> blob.type),
        body |-> blob])

fetchAvatarClip(i) ==
  Call(i, "fetchAvatarClip", <<>>, API_PATH \o "/user_client/avatar_clip", EmptyObj)

fetchLeaderboard(i, type, cursor) ==
  Call(i, "fetchLeaderboard", <<type, cursor>>,
       getClipPath(apis[i])
         \o (IF type = "clip" THEN "" ELSE "/votes")
         \o "/leaderboard"
         \o (IF Truthy(cursor) THEN "?cursor=" \o Stringify(cursor) ELSE ""),
       EmptyObj)

createGoal(i, body) ==
  Call(i, "createGoal", <<body>>, API_PATH \o "/user_client/goals",
       [method |-> "POST", body |-> body])

fetchGoals(i, locale) ==
  Call(i, "fetchGoals", <<locale>>,
       API_PATH \o "/user_client" \o LocaleSegment(locale) \o "/goals", EmptyObj)

claimAccount(i) ==
  Call(i, "claimAccount", <<>>,
       API_PATH \o "/user_clients/" \o Users[apis[i].user].userId \o "/claim",
       [method |-> "POST"])

saveHasDownloaded(i, email) ==
  Call(i, "saveHasDownloaded", <<email>>, getLocalePath(apis[i]) \o "/downloaders/" \o email,
       [method |-> "POST"])

seenAwards(i, kind) ==
  Call(i, "seenAwards", <<kind>>,
       API_PATH \o "/user_client/awards/seen"
         \o (IF ToStr(Default(kind, JStr("award"))) = "notification"
             THEN "?notification" ELSE ""),
       [method |-> "POST"])

report(i, body) ==
  Call(i, "report", <<body>>, API_PATH \o "/reports", [method |-> "POST", body |-> body])

\* ------------------------------------------------------------------------
\* The transport and the caller

\* the transport has taken the requests of the call just made
Transmit ==
  /\ issued # <<>>
  /\ issued' = <<>>
  /\ UNCHANGED <<apis, pending, settled, storage, reloading>>

\* the transport answers (or fails) one pending call; API.fetch resumes after
\* its await and the endpoint method's own continuation runs
Settle(call, reply) ==
  LET r == fetchResult(call.isJSON, reply) IN
  /\ Idle
  /\ BagIn(call, pending)
  /\ pending' = pending (-) SetToBag({call})
  /\ settled' = << [endpoint |-> call.endpoint, isJSON |-> call.isJSON,
                    reqs |-> call.reqs + r.requests, reply |-> reply,
                    dispatch |-> r.outcome,
                    outcome |-> EndpointOutcome(call.endpoint, r.outcome),
                    removed |-> r.removed, reloads |-> r.reloads,
                    reloadingBefore |-> reloading] >>
  /\ storage' = storage \ {r.removed[k] : k \in DOMAIN r.removed}
  /\ reloading' = (reloading \/ r.reloads > 0)
  /\ UNCHANGED <<apis, issued>>

Respond == \E call \in BagToSet(pending), reply \in Responses : Settle(call, reply)

TransportFail == \E call \in BagToSet(pending) : Settle(call, TransportFailure)

\* the caller has taken the settled promise's outcome
Observe ==
  /\ settled # <<>>
  /\ settled' = <<>>
  /\ UNCHANGED <<apis, pending, issued, storage, reloading>>

EndpointCall ==
  \E i \in DOMAIN apis :
    \/ \E count \in Counts : fetchRandomSentences(i, count)
    \/ \E count \in Counts : fetchRandomClips(i, count)
    \/ \E blob \in Blobs, id \in Ids, s \in Sentences : uploadClip(i, blob, id, s)
    \/ \E id \in Ids, isValid \in BOOLEAN : saveVote(i, id, isValid)
    \/ fetchValidatedHours(i)
    \/ fetchDailyClipsCount(i)
    \/ fetchDailyVotesCount(i)
    \/ \E locale \in {"fr"} : fetchLocaleMessages(i, locale)
    \/ fetchCrossLocaleMessages(i)
    \/ fetchRequestedLanguages(i)
    \/ \E language \in {"de"} : requestLanguage(i, language)
    \/ fetchLanguageStats(i)
    \/ \E name \in {"privacy", "terms"} : fetchDocument(i, name)
    \/ \E id \in Ids : skipSentence(i, id)
    \/ \E locale \in OptLocales : fetchClipsStats(i, locale)
    \/ \E locale \in OptLocales : fetchClipVoices(i, locale)
    \/ \E from \in {"you", "everyone"}, locale \in OptLocales :
         fetchContributionActivity(i, from, locale)
    \/ fetchUserClients(i)
    \/ fetchAccount(i)
    \/ \E data \in Accounts : saveAccount(i, data)
    \/ \E email \in Emails : subscribeToNewsletter(i, email)
    \/ \E type \in {"default", "file", "gravatar"}, file \in Blobs \cup {JUndefined} :
         saveAvatar(i, type, file)
    \/ \E blob \in Blobs : saveAvatarClip(i, blob)
    \/ fetchAvatarClip(i)
    \/ \E type \in {"clip", "vote"}, cursor \in Cursors : fetchLeaderboard(i, type, cursor)
    \/ \E body \in Goals : createGoal(i, body)
    \/ \E locale \in OptLocales : fetchGoals(i, locale)
    \/ claimAccount(i)
    \/ \E email \in Emails : saveHasDownloaded(i, email)
    \/ \E kind \in {JUndefined, JStr("award"), JStr("notification")} : seenAwards(i, kind)
    \/ \E body \in Reports : report(i, body)

ForLocale == \E i \in DOMAIN apis, locale \in LocaleArgs : forLocale(i, locale)

\* calls overlapping on one gateway
Next ==
  \/ (InFlight < MaxInFlight /\ EndpointCall)
  \/ Transmit
  \/ Respond
  \/ TransportFail
  \/ Observe

Spec == Init /\ [][Next]_vars

\* gateways re-scoped with forLocale, each call awaited before the next
NextGateways ==
  \/ ForLocale
  \/ (InFlight = 0 /\ EndpointCall)
  \/ Transmit
  \/ Respond
  \/ TransportFail
  \/ Observe

SpecGateways == InitGateways /\ [][NextGateways]_vars

\* ------------------------------------------------------------------------
\* Properties

IsResponse(c) == c.reply.kind = "response"
Is401(c) == IsResponse(c) /\ c.reply.status = 401
\* status >= 400 other than 401
IsErrorStatus(c) == IsResponse(c) /\ c.reply.status >= 400 /\ c.reply.status # 401
BodyArg(c) == IF Has(c.options, "body") THEN c.options.body ELSE JUndefined
CallerHeaders(c) == IF Has(c.options, "headers") THEN c.options.headers ELSE EmptyObj
\* a URL the transport resolves to the page's own origin: absolute under the
\* origin, or relative to it
SameOrigin(path) ==
  \/ StartsWith(path, Origin \o "/")
  \/ (StartsWith(path, "/") /\ ~StartsWith(path, "//"))
JSONDefault == "application/json; charset=utf-8"

\* C1: every request to a same-origin path carries client_id = the user's
\* client identifier when the user has no account, and no client_id when the
\* user has an account.
C1_ClientIdOnEverySameOriginRequest ==
  \A k \in DOMAIN issued :
    LET c == issued[k]
        u == Users[apis[c.api].user]
    IN \A r \in DOMAIN c.requests :
         LET h == c.requests[r].headers IN
         /\ (SameOrigin(c.path) /\ ~Truthy(u.account))
              => (Has(h, "client_id") /\ h["client_id"] = u.userId)
         /\ Truthy(u.account) => ~Has(h, "client_id")

\* C2: a call answered with status 401, whatever the status text and body,
\* removes USER_KEY from storage once, reloads once, throws nothing and
\* resolves with no value; so does each of several such calls.
C2_UnauthorizedClearsSessionOnce ==
  \A k \in DOMAIN settled :
    LET c == settled[k] IN
    Is401(c) =>
      /\ c.removed = <<USER_KEY>>
      /\ c.reloads = 1
      /\ USER_KEY \notin storage
      /\ reloading
      /\ c.dispatch = Resolved(JUndefined)

\* a second call answered 401, with status text save_clip_error, while
\* another call is still in flight
C2_Witness ==
  \E k \in DOMAIN settled :
    /\ Is401(settled[k])
    /\ settled[k].reply.statusText = "save_clip_error"
    /\ settled[k].reloadingBefore
    /\ InFlight > 0

\* C3: a response with status >= 400 other than 401 rejects the call with
\* the message save_clip_error when the status text is that token, and with
\* the response's body text otherwise (the body is never searched for the
\* token).
C3_ErrorClassification ==
  \A k \in DOMAIN settled :
    LET c == settled[k] IN
    IsErrorStatus(c) =>
      c.dispatch =
        Rejected(JError("Error",
                        IF c.reply.statusText = "save_clip_error"
                        THEN "save_clip_error" ELSE c.reply.body))

\* the token as status text of a response whose body is some other text
C3_Witness ==
  \E k \in DOMAIN settled :
    /\ IsErrorStatus(settled[k])
    /\ settled[k].reply.statusText = "save_clip_error"
    /\ settled[k].reply.body # "save_clip_error"
    /\ settled[k].dispatch.value.message = "save_clip_error"

\* C4: the promise of an endpoint method whose request is answered with
\* status 401 never rejects.
C4_UnauthorizedNeverRejects ==
  \A k \in DOMAIN settled :
    Is401(settled[k]) => settled[k].outcome.kind # "rejected"

\* C5: a falsy body sends no body, a Blob is sent as that Blob whatever the
\* content-mode, and any other truthy body is sent as JSON text that parses
\* back to the value passed.
C5_BodyEncoding ==
  \A k \in DOMAIN issued :
    LET c == issued[k]
        b == BodyArg(c)
    IN \A r \in DOMAIN c.requests :
         LET sent == c.requests[r].body IN
         /\ ~Truthy(b) => sent = JUndefined
         /\ (Truthy(b) /\ IsBlob(b)) => sent = b
         /\ (Truthy(b) /\ ~IsBlob(b)) =>
              /\ sent.t = "str"
              /\ JSONParse(sent.v) = [ok |-> TRUE, val |-> b]

\* a structured body, sent as its JSON text
C5_Witness ==
  \E k \in DOMAIN issued :
    /\ issued[k].endpoint = "report"
    /\ BodyArg(issued[k]).t = "obj"
    /\ issued[k].requests[1].body
         = JStr("{\"kind\":\"clip\",\"reasons\":[\"x\"]}")

\* C6: every header the caller passes is sent with the caller's value; the
\* JSON Content-Type default is sent exactly when the content-mode is JSON
\* and the caller passed no Content-Type; a Blob sent with the caller's
\* Content-Type carries blob.type.
C6_CallerHeadersWin ==
  \A k \in DOMAIN issued :
    LET c == issued[k]
        own == CallerHeaders(c)
    IN \A r \in DOMAIN c.requests :
         LET h == c.requests[r].headers IN
         /\ \A name \in DOMAIN own : Has(h, name) /\ h[name] = own[name]
         /\ ~Has(own, "Content-Type") =>
              IF IsJSONOf(c.options)
              THEN Has(h, "Content-Type") /\ h["Content-Type"] = JSONDefault
              ELSE ~Has(h, "Content-Type")
         /\ (IsBlob(BodyArg(c)) /\ Has(own, "Content-Type")) =>
              h["Content-Type"] = BodyArg(c).type

\* uploadClip of an audio/ogg blob, content-mode JSON by default
C6_Witness ==
  \E k \in DOMAIN issued :
    /\ issued[k].endpoint = "uploadClip"
    /\ IsJSONOf(issued[k].options)
    /\ issued[k].requests[1].headers["Content-Type"] = "audio/ogg"
    /\ issued[k].requests[1].headers["sentence"] = "a%20b"

\* the locale-scoped root the paths are expected to start with
ExpectedLocaleRoot(locale) ==
  IF locale \in {JUndefined, JNull, JStr("")}
  THEN Origin \o "/api/v1"
  ELSE Origin \o "/api/v1/" \o locale.v

\* C7: fetchRandomSentences(N) on a gateway with locale L is a GET of
\* <origin>/api/v1/L/sentences?count=N (N = 1 when no count is passed; no
\* locale segment when the locale is absent or empty), clip paths are the
\* locale path + /clips, and fetchRequestedLanguages is a GET of
\* <origin>/api/v1/requested_languages whatever the locale.
C7_PathConstruction ==
  \A k \in DOMAIN issued :
    LET c == issued[k]
        root == ExpectedLocaleRoot(apis[c.api].locale)
    IN \A r \in DOMAIN c.requests :
         LET q == c.requests[r] IN
         /\ c.endpoint = "fetchRandomSentences" =>
              /\ q.method = "GET"
              /\ q.path = root \o "/sentences?count="
                            \o (IF c.args[1] = JUndefined THEN "1"
                                ELSE ToString(c.args[1].v))
         /\ c.endpoint = "fetchValidatedHours" =>
              q.path = root \o "/clips/validated_hours"
         /\ c.endpoint = "fetchRequestedLanguages" =>
              /\ q.method = "GET"
              /\ q.path = Origin \o "/api/v1/requested_languages"

\* locale fr, count 3
C7_Witness ==
  \E k \in DOMAIN issued :
    /\ issued[k].endpoint = "fetchRandomSentences"
    /\ apis[issued[k].api].locale = JStr("fr")
    /\ issued[k].requests[1].method = "GET"
    /\ issued[k].requests[1].path = "https://voice.test/api/v1/fr/sentences?count=3"

\* C8: forLocale adds a gateway with the given locale and the receiver's
\* user; no step changes the locale or the user of a gateway that exists.
C8_ForLocaleFrame ==
  [][ /\ \A i \in DOMAIN apis : i \in DOMAIN apis' /\ apis'[i] = apis[i]
      /\ Len(apis') # Len(apis) =>
           /\ Len(apis') = Len(apis) + 1
           /\ apis'[Len(apis')].locale \in LocaleArgs
           /\ apis'[Len(apis')].user = apis[1].user ]_vars

\* an endpoint call on the original gateway after it was re-scoped
C8_Witness ==
  /\ Len(apis) >= 2
  /\ apis[2].locale # apis[1].locale
  /\ apis[2].user = apis[1].user
  /\ \E k \in DOMAIN issued : issued[k].api = 1

\* C9: every call, pending or settled, has made exactly one transport
\* request, whatever its outcome and whatever other calls are in flight.
C9_OneRequestPerCall ==
  /\ \A k \in DOMAIN issued : Len(issued[k].requests) = 1
  /\ \A c \in BagToSet(pending) : c.reqs = 1
  /\ \A k \in DOMAIN settled : settled[k].reqs = 1

\* a transport failure settled while another call is in flight
C9_Witness ==
  \E k \in DOMAIN settled :
    /\ settled[k].reply.kind = "failure"
    /\ settled[k].reqs = 1
    /\ InFlight > 0

\* the error a failed call carries: the transport's own, or the classified one
ExpectedError(reply) ==
  IF reply.kind = "failure" THEN reply.error
  ELSE JError("Error", IF reply.statusText = "save_clip_error"
                       THEN "save_clip_error" ELSE reply.body)

\* C10: saveAvatarClip never rejects and resolves with the error of a
\* failed call; every other endpoint rejects with that error.
C10_OnlySaveAvatarClipSwallows ==
  \A k \in DOMAIN settled :
    LET c == settled[k] IN
    /\ c.endpoint = "saveAvatarClip" => c.outcome.kind = "resolved"
    /\ (IsErrorStatus(c) \/ c.reply.kind = "failure") =>
         c.outcome = IF c.endpoint = "saveAvatarClip"
                     THEN Resolved(ExpectedError(c.reply))
                     ELSE Rejected(ExpectedError(c.reply))

\* saveAvatarClip answered 500
C10_Witness ==
  \E k \in DOMAIN settled :
    /\ settled[k].endpoint = "saveAvatarClip"
    /\ IsErrorStatus(settled[k])
    /\ settled[k].reply.status = 500
    /\ settled[k].outcome.kind = "resolved"
    /\ settled[k].outcome.value.t = "error"

====
